---- MODULE Spec2Model ----
(***************************************************************************)
(* Model of src/src/solana_program.rs: the client of the on-chain          *)
(* verification program.  One invocation of upload_program, process_close  *)
(* or get_all_pdas_available is one behaviour; every call to an external   *)
(* collaborator (terminal, local files, deployed-slot API, RPC node) is a  *)
(* step whose outcome is chosen nondeterministically and recorded in log.  *)
(***************************************************************************)
EXTENDS Integers, Sequences, FiniteSets, TLC

VARIABLES
    cmd,               \* "upload" | "close" | "list": the entry point invoked;
                       \* "decode": the decoding of one account alone
    skip_prompt,       \* upload_program argument
    path_to_keypair,   \* upload_program argument, Option: <<>> or <<path>>
    git_url,           \* upload_program argument (bytes of the string)
    commit,            \* upload_program argument, Option: <<>> or <<bytes>>
    args,              \* upload_program argument, sequence of strings
    chain,             \* the record accounts that exist on-chain
    pc,                \* position in the invoked function
    signer_pubkey,     \* local of upload_program / process_close
    last_deployed_slot,\* local of upload_program / process_close
    ix,                \* arguments of the pending process_otter_verify_ixs call
    tx,                \* transaction built by process_otter_verify_ixs
    issued,            \* history: the process_otter_verify_ixs calls made
    sent,              \* history: transactions handed to the RPC node
    log,               \* history: calls to external collaborators, in order
    result,            \* what the invocation returned
    user_config,       \* process_otter_verify_ixs: keypair of get_user_config
    program_accounts,  \* accounts the verification program owns on-chain
    accounts,          \* get_all_pdas_available: accounts the RPC node returned
    idx,               \* get_all_pdas_available: loop position
    pdas               \* get_all_pdas_available: the vector being built

vars == <<cmd, skip_prompt, path_to_keypair, git_url, commit, args, chain, pc,
          signer_pubkey, last_deployed_slot, ix, tx, issued, sent, log, result,
          user_config, program_accounts, accounts, idx, pdas>>

(***************************************************************************)
(* Bounds of the model.                                                    *)
(***************************************************************************)
MaxArgs == 1        \* upload is tried with at most this many build arguments
MaxAccounts == 2    \* the RPC node returns at most this many accounts

(***************************************************************************)
(* Constants of the program.                                               *)
(***************************************************************************)
OTTER_VERIFY_PROGRAMID == <<"verifycLy8mB96wd9wqq3WDXQwM4oU6r42Th37Db9fC">>
OTTER_SIGNER == <<"9VWiUUhgNoRwTH5NVehYJEDwcotwYX3VgW4MChiHPAqU">>
SystemProgramId == <<"system_program">>

\* Pubkeys are tuples of names; a program-derived address is the tuple of
\* its seeds and owning program (find_program_address has no collisions).
NoKey == <<>>
\* the keypair each file holds when the invocation first reads it, and the
\* keypair a file rewritten meanwhile holds at a later read
ConfigKeypair == <<"config_keypair">>      \* at cli_config.keypair_path
OverrideKeypair == <<"override_keypair">>  \* at the override path
OtherKeypair == <<"other_keypair">>
ProgramAddress == <<"verified_program">>   \* the program_address argument

find_program_address(seeds, program_id) == seeds \o program_id

PdaSeeds(signer, program_address) ==
    <<"otter_verify">> \o signer \o program_address

\* Option<T>: <<>> is None, <<v>> is Some(v)
None == <<>>
Some(v) == <<v>>
unwrap_or_default(o) == IF o = None THEN <<>> ELSE o[1]

(***************************************************************************)
(* Record Codec: borsh serialization, byte by byte.                        *)
(***************************************************************************)
RECURSIVE LEBytes(_, _)
\* little-endian encoding of n on w bytes
LEBytes(n, w) == IF w = 0 THEN <<>> ELSE <<n % 256>> \o LEBytes(n \div 256, w - 1)

\* String: u32 little-endian length, then the bytes
SerString(s) == LEBytes(Len(s), 4) \o s

RECURSIVE ConcatStrings(_)
ConcatStrings(v) ==
    IF v = <<>> THEN <<>> ELSE SerString(Head(v)) \o ConcatStrings(Tail(v))

\* Vec<String>: u32 little-endian count, then each element
SerVecString(v) == LEBytes(Len(v), 4) \o ConcatStrings(v)

\* InputParams, fields in declaration order
SerInputParams(p) ==
    SerString(p.version) \o SerString(p.git_url) \o SerString(p.commit)
        \o SerVecString(p.args) \o LEBytes(p.deployed_slot, 8)

get_discriminant(instruction) ==
    CASE instruction = "Initialize" -> <<175, 175, 109, 31, 13, 152, 155, 237>>
      [] instruction = "Update" -> <<219, 200, 88, 176, 158, 63, 253, 127>>
      [] instruction = "Close" -> <<98, 165, 201, 177, 108, 65, 206, 96>>

create_ix_data(params, instruction) ==
    get_discriminant(instruction) \o SerInputParams(params)

(***************************************************************************)
(* Record Codec: borsh deserialization of OtterBuildParams.  A read        *)
(* returns [ok, val, pos]: success, the value read, the next position.     *)
(***************************************************************************)
PubkeyLen == 32          \* bytes of a Pubkey
AccountTagLen == 8       \* bytes skipped in front of the record

ReadFail(pos) == [ok |-> FALSE, val |-> <<>>, pos |-> pos]

\* read_exact of n bytes: unexpected end of input is an error
ReadBytes(buf, pos, n) ==
    IF n <= Len(buf) - pos + 1
    THEN [ok |-> TRUE, val |-> SubSeq(buf, pos, pos + n - 1), pos |-> pos + n]
    ELSE ReadFail(pos)

\* value of four little-endian bytes; values of 2^31 and more are all
\* larger than any buffer and are represented by the largest integer
U32Value(b) ==
    IF b[4] >= 128 THEN 2147483647
    ELSE b[1] + 256 * b[2] + 65536 * b[3] + 16777216 * b[4]

ReadU32(buf, pos) ==
    LET r == ReadBytes(buf, pos, 4)
    IN IF r.ok THEN [ok |-> TRUE, val |-> U32Value(r.val), pos |-> r.pos]
       ELSE ReadFail(pos)

IsCont(bytes, i) == i <= Len(bytes) /\ bytes[i] \in 128..191

RECURSIVE Utf8From(_, _)
\* the bytes from position i on are well-formed UTF-8: no overlong form, no
\* surrogate, nothing above U+10FFFF
Utf8From(bytes, i) ==
    IF i > Len(bytes) THEN TRUE
    ELSE LET b == bytes[i]
             second(lo, hi) == i + 1 <= Len(bytes) /\ bytes[i + 1] \in lo..hi
         IN CASE b < 128 -> Utf8From(bytes, i + 1)
              [] b \in 194..223 -> IsCont(bytes, i + 1) /\ Utf8From(bytes, i + 2)
              [] b \in 224..239 ->
                   /\ second(IF b = 224 THEN 160 ELSE 128,
                             IF b = 237 THEN 159 ELSE 191)
                   /\ IsCont(bytes, i + 2)
                   /\ Utf8From(bytes, i + 3)
              [] b \in 240..244 ->
                   /\ second(IF b = 240 THEN 144 ELSE 128,
                             IF b = 244 THEN 143 ELSE 191)
                   /\ IsCont(bytes, i + 2) /\ IsCont(bytes, i + 3)
                   /\ Utf8From(bytes, i + 4)
              [] OTHER -> FALSE

\* String::from_utf8(bytes).is_ok()
IsUtf8(bytes) == Utf8From(bytes, 1)

ReadString(buf, pos) ==
    LET l == ReadU32(buf, pos)
    IN IF ~l.ok THEN ReadFail(pos)
       ELSE LET b == ReadBytes(buf, l.pos, l.val)
            IN IF b.ok /\ IsUtf8(b.val) THEN b ELSE ReadFail(pos)

RECURSIVE ReadStrings(_, _, _)
ReadStrings(buf, pos, count) ==
    IF count = 0 THEN [ok |-> TRUE, val |-> <<>>, pos |-> pos]
    ELSE LET s == ReadString(buf, pos)
         IN IF ~s.ok THEN ReadFail(pos)
            ELSE LET rest == ReadStrings(buf, s.pos, count - 1)
                 IN IF ~rest.ok THEN ReadFail(pos)
                    ELSE [ok |-> TRUE, val |-> <<s.val>> \o rest.val,
                          pos |-> rest.pos]

ReadVecString(buf, pos) ==
    LET l == ReadU32(buf, pos)
    IN IF l.ok THEN ReadStrings(buf, l.pos, l.val) ELSE ReadFail(pos)

\* OtterBuildParams::try_from_slice(v): the fields in declaration order,
\* then an error unless every byte was read.  deployed_slot (u64) is kept
\* as its eight little-endian bytes.
try_from_slice(v) ==
    LET address == ReadBytes(v, 1, PubkeyLen)
        signer == ReadBytes(v, address.pos, PubkeyLen)
        version == ReadString(v, signer.pos)
        giturl == ReadString(v, version.pos)
        commitf == ReadString(v, giturl.pos)
        argsf == ReadVecString(v, commitf.pos)
        slot == ReadBytes(v, argsf.pos, 8)
        bump == ReadBytes(v, slot.pos, 1)
    IN IF /\ address.ok /\ signer.ok /\ version.ok /\ giturl.ok /\ commitf.ok
          /\ argsf.ok /\ slot.ok /\ bump.ok
          /\ bump.pos = Len(v) + 1
       THEN [ok |-> TRUE,
             val |-> [address |-> address.val, signer |-> signer.val,
                      version |-> version.val, git_url |-> giturl.val,
                      commit |-> commitf.val, args |-> argsf.val,
                      deployed_slot |-> slot.val, bump |-> bump.val[1]]]
       ELSE [ok |-> FALSE, val |-> <<>>]

\* BorshSerialize of OtterBuildParams, as the on-chain program stores it
SerOtterBuildParams(r) ==
    r.address \o r.signer \o SerString(r.version) \o SerString(r.git_url)
        \o SerString(r.commit) \o SerVecString(r.args) \o r.deployed_slot
        \o <<r.bump>>

(***************************************************************************)
(* Values returned by an invocation, and the log of external calls.        *)
(***************************************************************************)
NoResult == [kind |-> "none", err |-> "", signer |-> NoKey, program |-> NoKey]
Ok == [kind |-> "Ok", err |-> "", signer |-> NoKey, program |-> NoKey]
Err(e) == [kind |-> "Err", err |-> e, signer |-> NoKey, program |-> NoKey]
Panic(msg) == [kind |-> "panic", err |-> msg, signer |-> NoKey, program |-> NoKey]

\* faulty variant of NoPdaFound: the missing record is not reported
NoPdaFoundUnreported(signer, program_address) ==
    [kind |-> "Ok", err |-> "", signer |-> NoKey, program |-> NoKey]

\* the error of process_close when the record account is not found: its
\* message names the signer and the program address
NoPdaFound(signer, program_address) ==
    [kind |-> "Err", err |-> "NoAttestationFoundError",
     signer |-> signer, program |-> program_address]

\* one call to a collaborator: net is whether the collaborator answered at
\* all, ok is whether the call returned Ok (for a prompt: the user accepted)
Event(call, net, ok, pda) == [call |-> call, net |-> net, ok |-> ok, pda |-> pda]

NetworkCalls ==
    {"get_last_deployed_slot", "get_account", "get_latest_blockhash",
     "send_and_confirm_transaction", "get_program_accounts"}

(***************************************************************************)
(* Interactive prompt.                                                     *)
(***************************************************************************)
EndOfInput == -1     \* read_exact finds no byte on standard input
StdinBytes == {89, 121, 110, 78, 10}     \* 'Y' 'y' 'n' 'N' '\n'

prompt_user_input(byte) == byte \in {89, 121}

\* faulty variant of UploadConfirmed: the answer is not looked at
UploadConfirmedAnyAnswer(skip, byte) == TRUE

\* upload_program: the condition that guards the whole upload
UploadConfirmed(skip, byte) == skip \/ prompt_user_input(byte)

\* faulty variant of wanna_create_new_pda: the answer is not looked at
wanna_create_new_pda_any_answer(skip, byte) == TRUE

\* upload_program: wanna_create_new_pda
wanna_create_new_pda(skip, byte) == skip \/ prompt_user_input(byte)

(***************************************************************************)
(* Local signer and configuration.                                         *)
(***************************************************************************)
OverridePath == "override.json"
ConfigKeypairPath == "id.json"       \* cli_config.keypair_path

\* the keypair a readable keypair file holds at the first read of it
KeypairAtFirstRead(path) ==
    IF path = OverridePath THEN OverrideKeypair ELSE ConfigKeypair

\* the keypairs a readable keypair file may hold when it is read again: the
\* file is read anew each time and may have been rewritten in between
KeypairsAtReread(path) == {KeypairAtFirstRead(path), OtherKeypair}

\* upload_program: the signer whose pubkey seeds the record address;
\* path_keypair is what get_keypair_from_path read at the override path
UploadSigner(path, path_keypair, config_keypair) ==
    IF path # None THEN path_keypair ELSE config_keypair

\* process_otter_verify_ixs: the signer that signs and pays;
\* path_keypair is what get_keypair_from_path read at the override path
IxSigner(path, path_keypair, config_keypair) ==
    IF path # None THEN path_keypair ELSE config_keypair

\* process_close: the signer is always the one of the local config
CloseSigner(config_keypair) == config_keypair

CARGO_PKG_VERSION == <<48, 46, 52, 46, 48>>   \* "0.4.0": the package version

Slots == {0, 305419896}               \* heights the lookup may answer

InputParams(version, giturl, commitv, argsv, slot) ==
    [version |-> version, git_url |-> giturl, commit |-> commitv,
     args |-> argsv, deployed_slot |-> slot]

Pda(signer) ==
    find_program_address(PdaSeeds(signer, ProgramAddress), OTTER_VERIFY_PROGRAMID)

(***************************************************************************)
(* process_otter_verify_ixs: instruction and transaction construction.     *)
(***************************************************************************)
NoIx == [params |-> InputParams(<<>>, <<>>, <<>>, <<>>, 0), pda_account |-> NoKey,
         program_address |-> NoKey, instruction |-> "none",
         path_to_keypair |-> None]

NoTx == [program_id |-> NoKey, instruction |-> "none", data |-> <<>>,
         accounts |-> <<>>, payer |-> NoKey, signers |-> <<>>]

\* faulty variant of IxData: Close carries the params like the others
IxDataWithParams(params, instruction) == create_ix_data(params, instruction)

\* payload: the discriminant alone for Close
IxData(params, instruction) ==
    IF instruction # "Close" THEN create_ix_data(params, instruction)
    ELSE get_discriminant(instruction)

AccountMeta(pubkey, is_signer, is_writable) ==
    [pubkey |-> pubkey, is_signer |-> is_signer, is_writable |-> is_writable]

AccountsMeta(pda_account, signer, program_address, instruction) ==
    LET base == << AccountMeta(pda_account, FALSE, TRUE),
                   AccountMeta(signer, TRUE, FALSE),
                   AccountMeta(program_address, FALSE, FALSE) >>
    IN IF instruction # "Close"
       THEN Append(base, AccountMeta(SystemProgramId, FALSE, FALSE))
       ELSE base

\* the signed single-instruction transaction
BuildTx(call, signer) ==
    [program_id |-> OTTER_VERIFY_PROGRAMID,
     instruction |-> call.instruction,
     data |-> IxData(call.params, call.instruction),
     accounts |-> AccountsMeta(call.pda_account, signer, call.program_address,
                               call.instruction),
     payer |-> signer,
     signers |-> <<signer>>]

\* faulty variant of SubmissionOutcome: the rejection is not reported
SubmissionOutcomeSwallowed(confirmed) == Ok

\* what a failed submission is reported as
SubmissionOutcome(confirmed) ==
    IF confirmed THEN Ok ELSE Err("SubmissionError")

(***************************************************************************)
(* Initial states: one invocation, its arguments and the chain it meets.   *)
(***************************************************************************)
inputs == <<cmd, skip_prompt, path_to_keypair, git_url, commit, args, chain,
            program_accounts>>
listvars == <<accounts, idx, pdas>>

GitUrls == {<<>>, <<103, 105, 116>>}
Commits == {None, Some(<<99, 48>>)}
ArgStrings == {<<45, 45>>}

RECURSIVE SeqsUpTo(_, _)
\* the sequences over S of length at most n
SeqsUpTo(S, n) ==
    IF n = 0 THEN {<<>>}
    ELSE LET shorter == SeqsUpTo(S, n - 1)
         IN shorter \cup {Append(q, x) : q \in shorter, x \in S}

Chains ==
    SUBSET {Pda(ConfigKeypair), Pda(OverrideKeypair), Pda(OtherKeypair),
            Pda(OTTER_SIGNER)}

PubkeyBytes(b) == [i \in 1..PubkeyLen |-> b]

AccountTag == <<7, 6, 5, 4, 3, 2, 1, 0>>   \* some 8-byte account-type tag

\* the program_id_pubkey argument of get_all_pdas_available
ProgramIdPubkey == PubkeyBytes(1)

\* records of the program asked for (one with a non-ASCII string, one whose
\* string is not UTF-8) and a record of another program
SampleRecords ==
    { [address |-> PubkeyBytes(1), signer |-> PubkeyBytes(2), version |-> <<>>,
       git_url |-> <<>>, commit |-> <<>>, args |-> <<>>,
       deployed_slot |-> LEBytes(0, 8), bump |-> 255],
      [address |-> PubkeyBytes(1), signer |-> PubkeyBytes(3), version |-> <<48>>,
       git_url |-> <<195, 169>>, commit |-> <<99>>, args |-> << <<97, 98>> >>,
       deployed_slot |-> LEBytes(305419896, 8), bump |-> 254],
      [address |-> PubkeyBytes(1), signer |-> PubkeyBytes(4), version |-> <<255>>,
       git_url |-> <<>>, commit |-> <<>>, args |-> <<>>,
       deployed_slot |-> LEBytes(1, 8), bump |-> 253],
      [address |-> PubkeyBytes(9), signer |-> PubkeyBytes(2), version |-> <<>>,
       git_url |-> <<>>, commit |-> <<>>, args |-> <<>>,
       deployed_slot |-> LEBytes(0, 8), bump |-> 255] }

AccountData(r) == AccountTag \o SerOtterBuildParams(r)

\* data of accounts the verification program owns: stored records, records
\* cut short (also inside the tag), records followed by a stray byte, another
\* layout
AccountBuffers ==
    UNION { { SubSeq(AccountData(r), 1, k) :
                k \in {0, 3, AccountTagLen, AccountTagLen + PubkeyLen,
                       Len(AccountData(r)) - 1, Len(AccountData(r))} }
            \cup { AccountData(r) \o <<0>> } : r \in SampleRecords }
    \cup { [i \in 1..48 |-> 255] }

\* the i-th account of the program has address <<"account", i>>
AccountList(d) ==
    [i \in 1..Len(d) |-> [pubkey |-> <<"account", i>>, data |-> d[i]]]

AccountLists == { AccountList(d) : d \in SeqsUpTo(AccountBuffers, MaxAccounts) }

MemcmpOffset == 8    \* offset of the Memcmp filter

\* RpcFilterType::Memcmp(Memcmp::new_base58_encoded(offset, bytes)) as the
\* node applies it: the data holds bytes at offset
MemcmpMatches(data, offset, bytes) ==
    /\ Len(data) >= offset + Len(bytes)
    /\ SubSeq(data, offset + 1, offset + Len(bytes)) = bytes

\* get_program_accounts_with_config: the program's accounts passing the filter
FilteredAccounts(list, program_id_pubkey) ==
    SelectSeq(list, LAMBDA a : MemcmpMatches(a.data, MemcmpOffset, program_id_pubkey))

Init ==
    /\ cmd \in {"upload", "close", "list"}
    /\ IF cmd = "upload"
       THEN /\ skip_prompt \in BOOLEAN
            /\ path_to_keypair \in {None, Some(OverridePath)}
            /\ git_url \in GitUrls
            /\ commit \in Commits
            /\ args \in SeqsUpTo(ArgStrings, MaxArgs)
       ELSE /\ skip_prompt = FALSE
            /\ path_to_keypair = None
            /\ git_url = <<>>
            /\ commit = None
            /\ args = <<>>
    /\ IF cmd = "list" THEN chain = {} ELSE chain \in Chains
    /\ pc = "start"
    /\ signer_pubkey = NoKey
    /\ last_deployed_slot = 0
    /\ ix = NoIx
    /\ tx = NoTx
    /\ issued = <<>>
    /\ sent = <<>>
    /\ log = <<>>
    /\ result = NoResult
    /\ user_config = NoKey
    /\ program_accounts \in (IF cmd = "list" THEN AccountLists ELSE {<<>>})
    /\ accounts = <<>>
    /\ idx = 1
    /\ pdas = <<>>

Finish(res) == pc' = "done" /\ result' = res

Logged(e) == log' = Append(log, e)

\* the call process_otter_verify_ixs(params, pda_account, program_address,
\* instruction, connection, path)
Call(params, pda_account, instruction, path) ==
    LET c == [params |-> params, pda_account |-> pda_account,
              program_address |-> ProgramAddress, instruction |-> instruction,
              path_to_keypair |-> path]
    IN /\ ix' = c
       /\ issued' = Append(issued, c)
       /\ pc' = "ix_config"

\* connection.get_account(pda).is_ok(): Ok only when the node answers and
\* the account exists
AccountIsOk(net, pda) == net /\ pda \in chain

(***************************************************************************)
(* upload_program                                                          *)
(***************************************************************************)
UploadConfirm ==
    /\ cmd = "upload" /\ pc = "start"
    /\ IF skip_prompt
       THEN /\ pc' = "u_config"
            /\ UNCHANGED <<log, result>>
       ELSE \E byte \in StdinBytes \cup {EndOfInput} :
              IF byte = EndOfInput
              THEN /\ Logged(Event("prompt_upload", FALSE, FALSE, NoKey))
                   /\ Finish(Panic("Unable to read user input"))
              ELSE /\ Logged(Event("prompt_upload", TRUE,
                                   prompt_user_input(byte), NoKey))
                   /\ IF UploadConfirmed(skip_prompt, byte)
                      THEN pc' = "u_config" /\ UNCHANGED result
                      ELSE Finish(Ok)
    /\ UNCHANGED <<inputs, user_config, listvars, signer_pubkey, last_deployed_slot, ix, tx,
                   issued, sent>>

UploadGetUserConfig ==
    /\ cmd = "upload" /\ pc = "u_config"
    /\ \E loaded \in BOOLEAN :
         /\ Logged(Event("get_user_config", loaded, loaded, NoKey))
         /\ IF loaded THEN pc' = "u_signer" /\ UNCHANGED result
            ELSE Finish(Err("ConfigError"))
    /\ UNCHANGED <<inputs, user_config, listvars, signer_pubkey, last_deployed_slot, ix, tx,
                   issued, sent>>

UploadResolveSigner ==
    /\ cmd = "upload" /\ pc = "u_signer"
    /\ IF path_to_keypair # None
       THEN \E readable \in BOOLEAN :
              /\ Logged(Event("get_keypair_from_path", readable, readable, NoKey))
              /\ IF readable
                 THEN /\ signer_pubkey' =
                             UploadSigner(path_to_keypair,
                                          KeypairAtFirstRead(path_to_keypair[1]),
                                          ConfigKeypair)
                      /\ pc' = "u_lookup"
                      /\ UNCHANGED result
                 ELSE /\ Finish(Err("ConfigError"))
                      /\ UNCHANGED signer_pubkey
       ELSE /\ signer_pubkey' = UploadSigner(path_to_keypair, NoKey, ConfigKeypair)
            /\ pc' = "u_lookup"
            /\ UNCHANGED <<log, result>>
    /\ UNCHANGED <<inputs, user_config, listvars, last_deployed_slot, ix, tx, issued, sent>>

UploadLookup ==
    /\ cmd = "upload" /\ pc = "u_lookup"
    /\ \/ /\ Logged(Event("get_last_deployed_slot", FALSE, FALSE, NoKey))
          /\ Finish(Err("UpstreamLookupError"))
          /\ UNCHANGED last_deployed_slot
       \/ \E slot \in Slots :
            /\ Logged(Event("get_last_deployed_slot", TRUE, TRUE, NoKey))
            /\ last_deployed_slot' = slot
            /\ pc' = "u_pda1"
            /\ UNCHANGED result
    /\ UNCHANGED <<inputs, user_config, listvars, signer_pubkey, ix, tx, issued, sent>>

UploadParams ==
    InputParams(CARGO_PKG_VERSION, git_url, unwrap_or_default(commit), args,
                last_deployed_slot)

\* first branch: the record of the current signer
UploadQueryPda1 ==
    /\ cmd = "upload" /\ pc = "u_pda1"
    /\ \E net \in BOOLEAN :
         LET pda_account_1 == Pda(signer_pubkey)
         IN /\ Logged(Event("get_account", net, AccountIsOk(net, pda_account_1),
                            pda_account_1))
            /\ IF AccountIsOk(net, pda_account_1)
               THEN Call(UploadParams, pda_account_1, "Update", path_to_keypair)
               ELSE pc' = "u_pda2" /\ UNCHANGED <<ix, issued>>
    /\ UNCHANGED <<inputs, user_config, listvars, signer_pubkey, last_deployed_slot, tx, sent,
                   result>>

\* second branch: the record of the otter signer; else branch: neither
UploadQueryPda2 ==
    /\ cmd = "upload" /\ pc = "u_pda2"
    /\ \E net \in BOOLEAN :
         LET pda_account_2 == Pda(OTTER_SIGNER)
         IN /\ Logged(Event("get_account", net, AccountIsOk(net, pda_account_2),
                            pda_account_2))
            /\ IF AccountIsOk(net, pda_account_2)
               THEN pc' = "u_new_pda" /\ UNCHANGED <<ix, issued>>
               ELSE Call(UploadParams, Pda(signer_pubkey), "Initialize",
                         path_to_keypair)
    /\ UNCHANGED <<inputs, user_config, listvars, signer_pubkey, last_deployed_slot, tx, sent,
                   result>>

UploadNewPda ==
    /\ cmd = "upload" /\ pc = "u_new_pda"
    /\ IF skip_prompt
       THEN /\ Call(UploadParams, Pda(signer_pubkey), "Initialize", path_to_keypair)
            /\ UNCHANGED <<log, result>>
       ELSE \E byte \in StdinBytes \cup {EndOfInput} :
              IF byte = EndOfInput
              THEN /\ Logged(Event("prompt_new_pda", FALSE, FALSE, NoKey))
                   /\ Finish(Panic("Unable to read user input"))
                   /\ UNCHANGED <<ix, issued>>
              ELSE /\ Logged(Event("prompt_new_pda", TRUE,
                                   prompt_user_input(byte), NoKey))
                   /\ IF wanna_create_new_pda(skip_prompt, byte)
                      THEN /\ Call(UploadParams, Pda(signer_pubkey), "Initialize",
                                   path_to_keypair)
                           /\ UNCHANGED result
                      ELSE /\ Finish(Ok)
                           /\ UNCHANGED <<ix, issued>>
    /\ UNCHANGED <<inputs, user_config, listvars, signer_pubkey, last_deployed_slot, tx, sent>>

(***************************************************************************)
(* process_close                                                           *)
(***************************************************************************)
CloseGetUserConfig ==
    /\ cmd = "close" /\ pc = "start"
    /\ \E loaded \in BOOLEAN :
         /\ Logged(Event("get_user_config", loaded, loaded, NoKey))
         /\ IF loaded
            THEN /\ signer_pubkey' = CloseSigner(ConfigKeypair)
                 /\ pc' = "c_lookup"
                 /\ UNCHANGED result
            ELSE /\ Finish(Err("ConfigError"))
                 /\ UNCHANGED signer_pubkey
    /\ UNCHANGED <<inputs, user_config, listvars, last_deployed_slot, ix, tx, issued, sent>>

CloseLookup ==
    /\ cmd = "close" /\ pc = "c_lookup"
    /\ \/ /\ Logged(Event("get_last_deployed_slot", FALSE, FALSE, NoKey))
          /\ Finish(Err("UpstreamLookupError"))
          /\ UNCHANGED last_deployed_slot
       \/ \E slot \in Slots :
            /\ Logged(Event("get_last_deployed_slot", TRUE, TRUE, NoKey))
            /\ last_deployed_slot' = slot
            /\ pc' = "c_pda"
            /\ UNCHANGED result
    /\ UNCHANGED <<inputs, user_config, listvars, signer_pubkey, ix, tx, issued, sent>>

CloseQueryPda ==
    /\ cmd = "close" /\ pc = "c_pda"
    /\ \E net \in BOOLEAN :
         LET pda_account == Pda(signer_pubkey)
         IN /\ Logged(Event("get_account", net, AccountIsOk(net, pda_account),
                            pda_account))
            /\ IF AccountIsOk(net, pda_account)
               THEN /\ Call(InputParams(<<>>, <<>>, <<>>, <<>>, last_deployed_slot),
                            pda_account, "Close", None)
                    /\ UNCHANGED result
               ELSE /\ Finish(NoPdaFound(signer_pubkey, ProgramAddress))
                    /\ UNCHANGED <<ix, issued>>
    /\ UNCHANGED <<inputs, user_config, listvars, signer_pubkey, last_deployed_slot, tx, sent>>

(***************************************************************************)
(* process_otter_verify_ixs                                                *)
(***************************************************************************)
\* the config and its keypair file are read again
IxGetUserConfig ==
    /\ pc = "ix_config"
    /\ \/ /\ Logged(Event("get_user_config", FALSE, FALSE, NoKey))
          /\ Finish(Err("ConfigError"))
          /\ UNCHANGED user_config
       \/ \E keypair \in KeypairsAtReread(ConfigKeypairPath) :
            /\ Logged(Event("get_user_config", TRUE, TRUE, NoKey))
            /\ user_config' = keypair
            /\ pc' = "ix_build"
            /\ UNCHANGED result
    /\ UNCHANGED <<inputs, listvars, signer_pubkey, last_deployed_slot, ix, tx,
                   issued, sent>>

\* resolve the signer, build the instruction, the message and the transaction
IxBuild ==
    /\ pc = "ix_build"
    /\ IF ix.path_to_keypair # None
       THEN \/ /\ Logged(Event("get_keypair_from_path", FALSE, FALSE, NoKey))
               /\ Finish(Err("ConfigError"))
               /\ UNCHANGED tx
            \/ \E keypair \in KeypairsAtReread(ix.path_to_keypair[1]) :
                 /\ Logged(Event("get_keypair_from_path", TRUE, TRUE, NoKey))
                 /\ tx' = BuildTx(ix, IxSigner(ix.path_to_keypair, keypair,
                                               user_config))
                 /\ pc' = "ix_blockhash"
                 /\ UNCHANGED result
       ELSE /\ tx' = BuildTx(ix, IxSigner(ix.path_to_keypair, NoKey, user_config))
            /\ pc' = "ix_blockhash"
            /\ UNCHANGED <<log, result>>
    /\ UNCHANGED <<inputs, user_config, listvars, signer_pubkey, last_deployed_slot, ix, issued,
                   sent>>

\* tx.sign(&[&signer], connection.get_latest_blockhash()?)
IxBlockhash ==
    /\ pc = "ix_blockhash"
    /\ \E net \in BOOLEAN :
         /\ Logged(Event("get_latest_blockhash", net, net, NoKey))
         /\ IF net THEN pc' = "ix_send" /\ UNCHANGED result
            ELSE Finish(Err("RpcError"))
    /\ UNCHANGED <<inputs, user_config, listvars, signer_pubkey, last_deployed_slot, ix, tx,
                   issued, sent>>

\* send_and_confirm_transaction_with_spinner(&tx), once
IxSend ==
    /\ pc = "ix_send"
    /\ \E confirmed \in BOOLEAN :
         /\ Logged(Event("send_and_confirm_transaction", confirmed, confirmed,
                         ix.pda_account))
         /\ sent' = Append(sent, tx)
         /\ Finish(SubmissionOutcome(confirmed))
    /\ UNCHANGED <<inputs, user_config, listvars, signer_pubkey, last_deployed_slot, ix, tx,
                   issued>>

(***************************************************************************)
(* get_all_pdas_available                                                  *)
(***************************************************************************)
\* client.get_program_accounts_with_config(...)? with the Memcmp filter on
\* program_id_pubkey
ListFetch ==
    /\ cmd = "list" /\ pc = "start"
    /\ \/ /\ Logged(Event("get_program_accounts", FALSE, FALSE, NoKey))
          /\ Finish(Err("RpcError"))
          /\ UNCHANGED accounts
       \/ /\ Logged(Event("get_program_accounts", TRUE, TRUE, NoKey))
          /\ accounts' = FilteredAccounts(program_accounts, ProgramIdPubkey)
          /\ pc' = "l_scan"
          /\ UNCHANGED result
    /\ UNCHANGED <<inputs, user_config, idx, pdas, signer_pubkey,
                   last_deployed_slot, ix, tx, issued, sent>>

\* faulty variant of SliceFrom: the tag is not skipped
SliceFromStart(data, start) == data

\* &data[8..]: panics when the data is shorter than 8 bytes
SliceFrom(data, start) == SubSeq(data, start + 1, Len(data))

\* OtterBuildParams::try_from_slice(&data[8..]): the decoding of an account,
\* which panics in the slice, returns the record, or returns an error
DecodeAccount(data) ==
    IF Len(data) < AccountTagLen
    THEN [kind |-> "panic", val |-> <<>>]
    ELSE LET otter_build_params == try_from_slice(SliceFrom(data, AccountTagLen))
         IN [kind |-> IF otter_build_params.ok THEN "ok" ELSE "err",
             val |-> otter_build_params.val]

\* one iteration of the loop over the accounts
ListScan ==
    /\ cmd = "list" /\ pc = "l_scan" /\ idx <= Len(accounts)
    /\ LET account == accounts[idx]
           otter_build_params == DecodeAccount(account.data)
       IN IF otter_build_params.kind = "panic"
          THEN /\ Finish(Panic("range start index out of range"))
               /\ UNCHANGED <<idx, pdas>>
          ELSE /\ pdas' = IF otter_build_params.kind = "ok"
                          THEN Append(pdas, <<account.pubkey,
                                              otter_build_params.val>>)
                          ELSE pdas
               /\ idx' = idx + 1
               /\ UNCHANGED <<pc, result>>
    /\ UNCHANGED <<inputs, user_config, accounts, signer_pubkey,
                   last_deployed_slot, ix, tx, issued, sent, log>>

\* Ok(pdas)
ListReturn ==
    /\ cmd = "list" /\ pc = "l_scan" /\ idx > Len(accounts)
    /\ Finish(Ok)
    /\ UNCHANGED <<inputs, user_config, listvars, signer_pubkey,
                   last_deployed_slot, ix, tx, issued, sent, log>>

Next ==
    \/ UploadConfirm
    \/ UploadGetUserConfig
    \/ UploadResolveSigner
    \/ UploadLookup
    \/ UploadQueryPda1
    \/ UploadQueryPda2
    \/ UploadNewPda
    \/ CloseGetUserConfig
    \/ CloseLookup
    \/ CloseQueryPda
    \/ IxGetUserConfig
    \/ IxBuild
    \/ IxBlockhash
    \/ IxSend
    \/ ListFetch
    \/ ListScan
    \/ ListReturn

Spec == Init /\ [][Next]_vars

(***************************************************************************)
(* The decoding of line 352 alone, on any buffer: every prefix of a stored *)
(* record's account data, and the data followed by a stray byte.           *)
(***************************************************************************)
DecodeBuffers ==
    UNION { { SubSeq(AccountData(r), 1, k) : k \in 0..Len(AccountData(r)) }
            \cup { AccountData(r) \o <<0>> } : r \in SampleRecords }

InitDecode ==
    /\ cmd = "decode"
    /\ skip_prompt = FALSE
    /\ path_to_keypair = None
    /\ git_url = <<>>
    /\ commit = None
    /\ args = <<>>
    /\ chain = {}
    /\ pc = "start"
    /\ signer_pubkey = NoKey
    /\ last_deployed_slot = 0
    /\ ix = NoIx
    /\ tx = NoTx
    /\ issued = <<>>
    /\ sent = <<>>
    /\ log = <<>>
    /\ result = NoResult
    /\ user_config = NoKey
    /\ program_accounts = <<>>
    /\ accounts \in { AccountList(<<d>>) : d \in DecodeBuffers }
    /\ idx = 1
    /\ pdas = <<>>

\* the loop of get_all_pdas_available over the one account and its return:
\* the slice panics, or the pair of a decoded record is pushed, or the decode
\* error is dropped (if let Ok), and the function returns Ok(pdas)
DecodeOne ==
    /\ cmd = "decode" /\ pc = "start" /\ idx <= Len(accounts)
    /\ LET account == accounts[idx]
           otter_build_params == DecodeAccount(account.data)
       IN IF otter_build_params.kind = "panic"
          THEN /\ Finish(Panic("range start index out of range"))
               /\ UNCHANGED <<idx, pdas>>
          ELSE /\ pdas' = IF otter_build_params.kind = "ok"
                          THEN Append(pdas, <<account.pubkey,
                                              otter_build_params.val>>)
                          ELSE pdas
               /\ idx' = idx + 1
               /\ Finish(Ok)
    /\ UNCHANGED <<inputs, user_config, accounts, signer_pubkey,
                   last_deployed_slot, ix, tx, issued, sent, log>>

NextDecode == DecodeOne

SpecDecode == InitDecode /\ [][NextDecode]_vars

(***************************************************************************)
(* Vocabulary of the properties.                                           *)
(***************************************************************************)
Done == pc = "done"

Calls(call) == {i \in 1..Len(log) : log[i].call = call}

\* the signer the invocation acts for, and the two candidate addresses
ActingSigner ==
    IF cmd = "upload" /\ path_to_keypair # None THEN OverrideKeypair
    ELSE ConfigKeypair
CandidateA == <<"otter_verify">> \o ActingSigner \o ProgramAddress
                  \o OTTER_VERIFY_PROGRAMID
CandidateB == <<"otter_verify">> \o OTTER_SIGNER \o ProgramAddress
                  \o OTTER_VERIFY_PROGRAMID

PassedConfirmation ==
    skip_prompt \/ \E i \in Calls("prompt_upload") : log[i].ok
LookupSucceeded == \E i \in Calls("get_last_deployed_slot") : log[i].ok

IssuedExactly(instruction, target) ==
    /\ Len(issued) = 1
    /\ issued[1].instruction = instruction
    /\ issued[1].pda_account = target

\* C1: an upload that passed the first confirmation and whose deployed-height
\* lookup succeeded issues exactly one Update on candidate A when candidate A
\* exists on-chain, exactly one Initialize on candidate A when neither
\* candidate exists, and no upload ever targets candidate B or issues Close.
C1_UpdateIffAExists ==
    cmd = "upload" =>
      /\ \A i \in 1..Len(issued) :
           issued[i].pda_account # CandidateB /\ issued[i].instruction # "Close"
      /\ (Done /\ result.kind # "panic" /\ PassedConfirmation /\ LookupSucceeded) =>
           /\ CandidateA \in chain => IssuedExactly("Update", CandidateA)
           /\ (CandidateA \notin chain /\ CandidateB \notin chain) =>
                  IssuedExactly("Initialize", CandidateA)

SecondPromptDeclined ==
    \E i \in Calls("prompt_new_pda") : log[i].net /\ ~log[i].ok

C2_Cases ==
    /\ skip_prompt =>
         /\ IssuedExactly("Initialize", CandidateA)
         /\ Calls("prompt_upload") = {} /\ Calls("prompt_new_pda") = {}
    /\ (~skip_prompt /\ SecondPromptDeclined) =>
         /\ sent = <<>> /\ Calls("send_and_confirm_transaction") = {}
         /\ result = Ok

\* C2 as stated: whenever candidate A does not exist and candidate B exists,
\* an upload with skipPrompt issues Initialize on candidate A and asks
\* nothing, and one whose second confirmation is declined submits nothing
\* and returns success.
C2_AsStated ==
    (cmd = "upload" /\ Done /\ CandidateA \notin chain /\ CandidateB \in chain)
        => C2_Cases

\* C2 amended: the same, for an upload whose local config and keypair were
\* read and whose deployed-height lookup succeeded.
C2_NewRecordBesideTrusted ==
    (cmd = "upload" /\ Done /\ CandidateA \notin chain /\ CandidateB \in chain
        /\ LookupSucceeded) => C2_Cases

C2_Witness ==
    /\ cmd = "upload" /\ Done /\ skip_prompt
    /\ CandidateA \notin chain /\ CandidateB \in chain
    /\ \E i \in Calls("get_account") : log[i].pda = CandidateB /\ log[i].ok
    /\ IssuedExactly("Initialize", CandidateA)
    /\ Len(sent) = 1 /\ result = Ok

\* C3: when skipPrompt is false and the user declines the first confirmation
\* the upload returns Ok having read no config, looked up nothing, queried no
\* account and submitted nothing; when skipPrompt is true the first
\* confirmation is never asked.
C3_DeclineIsNoOp ==
    cmd = "upload" =>
      /\ skip_prompt => Calls("prompt_upload") = {}
      /\ (~skip_prompt /\ log # <<>> /\ log[1].net /\ ~log[1].ok) =>
           /\ log[1].call = "prompt_upload"
           /\ Len(log) = 1
           /\ Done /\ result = Ok
           /\ issued = <<>> /\ sent = <<>>

C3_Witness ==
    /\ cmd = "upload" /\ ~skip_prompt /\ Done /\ result = Ok
    /\ log = <<Event("prompt_upload", TRUE, FALSE, NoKey)>>

\* C4 as stated: close against a signer with no existing candidate-A account
\* fails with NoAttestationFoundError naming the signer and the program id,
\* and submits nothing.
C4_AsStated ==
    (cmd = "close" /\ Done /\ CandidateA \notin chain) =>
        /\ result = [kind |-> "Err", err |-> "NoAttestationFoundError",
                     signer |-> ConfigKeypair, program |-> ProgramAddress]
        /\ sent = <<>>

\* C4 amended: close against a signer with no existing candidate-A account
\* fails and submits nothing; the failure is NoAttestationFoundError naming
\* the signer and the program id whenever the local config was read and the
\* deployed-height lookup succeeded.
C4_CloseWithoutRecordFails ==
    (cmd = "close" /\ Done /\ CandidateA \notin chain) =>
        /\ result.kind = "Err"
        /\ sent = <<>> /\ issued = <<>>
        /\ Calls("send_and_confirm_transaction") = {}
        /\ LookupSucceeded =>
             result = [kind |-> "Err", err |-> "NoAttestationFoundError",
                       signer |-> ConfigKeypair, program |-> ProgramAddress]
        /\ ~LookupSucceeded =>
             result.err \in {"ConfigError", "UpstreamLookupError"}

C4_Witness ==
    /\ cmd = "close" /\ Done /\ CandidateA \notin chain
    /\ \E i \in Calls("get_account") : log[i].net /\ ~log[i].ok
    /\ result.err = "NoAttestationFoundError"

\* C5: in upload and close, once a network call (deployed-height lookup,
\* account-existence query, latest-blockhash fetch, submission) has failed,
\* no further network call and no submission follows and the invocation
\* returns an error.
C5_NetworkErrorAborts ==
    cmd \in {"upload", "close"} =>
      \A i \in 1..Len(log) :
        (log[i].call \in NetworkCalls /\ ~log[i].net) =>
           /\ \A j \in (i + 1)..Len(log) : log[j].call \notin NetworkCalls
           /\ Done => result.kind = "Err"

\* bytes of the smallest record: two pubkeys, four empty length-prefixed
\* fields, the slot and the bump
MinRecordLen == 2 * PubkeyLen + 4 * 4 + 8 + 1

\* the pairs listing is specified to return: the accounts, in order, whose
\* bytes after the tag decode
RECURSIVE DecodedEntries(_)
DecodedEntries(list) ==
    IF list = <<>> THEN <<>>
    ELSE LET a == Head(list)
             d == IF Len(a.data) < AccountTagLen THEN [ok |-> FALSE, val |-> <<>>]
                  ELSE try_from_slice(SubSeq(a.data, AccountTagLen + 1, Len(a.data)))
         IN (IF d.ok THEN << <<a.pubkey, d.val>> >> ELSE <<>>)
                \o DecodedEntries(Tail(list))

C7_DecodeNeverPanics ==
    (cmd = "decode" /\ Done
        /\ Len(accounts[1].data) < AccountTagLen + MinRecordLen) =>
        /\ result.kind # "panic"
        /\ DecodeAccount(accounts[1].data).kind = "err"
        /\ pdas = <<>>

\* C8: an upload or close submits at most once, fetches the latest blockhash
\* successfully before submitting, and a rejected or unconfirmed submission
\* ends the invocation with SubmissionError.
C8_SingleAttempt ==
    cmd \in {"upload", "close"} =>
      /\ Len(sent) <= 1
      /\ Cardinality(Calls("send_and_confirm_transaction")) = Len(sent)
      /\ \A j \in Calls("send_and_confirm_transaction") :
           /\ \E i \in Calls("get_latest_blockhash") : i < j /\ log[i].ok
           /\ ~log[j].ok =>
                /\ j = Len(log) /\ Done
                /\ result = [kind |-> "Err", err |-> "SubmissionError",
                             signer |-> NoKey, program |-> NoKey]

C8_Witness ==
    /\ Done /\ Len(sent) = 1 /\ result.err = "SubmissionError"
    /\ log[Len(log)].call = "send_and_confirm_transaction" /\ ~log[Len(log)].ok

\* the InputParams an Initialize or Update payload has to carry
ExpectedParams ==
    [version |-> CARGO_PKG_VERSION, git_url |-> git_url,
     commit |-> IF commit = None THEN <<>> ELSE commit[1], args |-> args,
     deployed_slot |-> LEBytes(last_deployed_slot, 8)]

\* reading a payload back field by field: the fields, or ok = FALSE when a
\* field cannot be read or bytes are left over
ReadInputParams(payload) ==
    LET version == ReadString(payload, 1)
        giturl == ReadString(payload, version.pos)
        commitf == ReadString(payload, giturl.pos)
        argsf == ReadVecString(payload, commitf.pos)
        slot == ReadBytes(payload, argsf.pos, 8)
    IN IF /\ version.ok /\ giturl.ok /\ commitf.ok /\ argsf.ok /\ slot.ok
          /\ slot.pos = Len(payload) + 1
       THEN [ok |-> TRUE,
             val |-> [version |-> version.val, git_url |-> giturl.val,
                      commit |-> commitf.val, args |-> argsf.val,
                      deployed_slot |-> slot.val]]
       ELSE [ok |-> FALSE, val |-> <<>>]

InitializeDiscriminant == <<175, 175, 109, 31, 13, 152, 155, 237>>
UpdateDiscriminant == <<219, 200, 88, 176, 158, 63, 253, 127>>
CloseDiscriminant == <<98, 165, 201, 177, 108, 65, 206, 96>>

\* C9: a submitted Close carries the 8-byte Close discriminant alone and the
\* accounts [record, signer, verified program]; a submitted Initialize or
\* Update carries its discriminant followed by the serialized InputParams
\* and those three accounts followed by the system account; the signer is the
\* only signing account; the three discriminants differ pairwise.
C9_InstructionLayout ==
    /\ InitializeDiscriminant # UpdateDiscriminant
    /\ InitializeDiscriminant # CloseDiscriminant
    /\ UpdateDiscriminant # CloseDiscriminant
    /\ \A n \in 1..Len(sent) :
         LET t == sent[n]
             payload == SubSeq(t.data, 9, Len(t.data))
         IN /\ Len(t.accounts) >= 3
            /\ t.accounts[1].pubkey = CandidateA
            /\ t.accounts[2].pubkey = t.signers[1] /\ Len(t.signers) = 1
            /\ t.accounts[3].pubkey = ProgramAddress
            /\ {k \in 1..Len(t.accounts) : t.accounts[k].is_signer} = {2}
            /\ t.instruction \in {"Initialize", "Update", "Close"}
            /\ IF t.instruction = "Close"
               THEN /\ t.data = CloseDiscriminant
                    /\ Len(t.accounts) = 3
               ELSE /\ Len(t.data) >= 8
                    /\ SubSeq(t.data, 1, 8) =
                         IF t.instruction = "Initialize"
                         THEN InitializeDiscriminant ELSE UpdateDiscriminant
                    /\ ReadInputParams(payload) = [ok |-> TRUE, val |-> ExpectedParams]
                    /\ Len(t.accounts) = 4
                    /\ t.accounts[4].pubkey = SystemProgramId

C9_Witness ==
    /\ cmd = "close" /\ Done
    /\ Len(sent) = 1 /\ sent[1].instruction = "Close"

\* C10: every submitted transaction is signed and paid by, and lists as its
\* signing account, the signer whose identifier seeds the targeted record
\* address: the keypair at the override path when upload is given one, the
\* keypair of the local config otherwise and always for close.
C10_SeedSignerSigns ==
    \A n \in 1..Len(sent) :
      LET t == sent[n]
          seed_signer == <<t.accounts[1].pubkey[2]>>
      IN /\ t.accounts[1].pubkey =
               <<"otter_verify">> \o seed_signer \o ProgramAddress
                   \o OTTER_VERIFY_PROGRAMID
         /\ t.signers = <<seed_signer>>
         /\ t.payer = seed_signer
         /\ t.accounts[2] = [pubkey |-> seed_signer, is_signer |-> TRUE,
                             is_writable |-> FALSE]
         /\ seed_signer =
               IF cmd = "upload" /\ path_to_keypair # None
               THEN OverrideKeypair ELSE ConfigKeypair

====
